---- MODULE Spec2Model ----
(***************************************************************************)
(* The NeuralBackground canvas animation of InvoiceIQ (both variants of    *)
(* the component: the repelling field with data packets and the attracting *)
(* field without), as a state machine driven by the host: mount, frame     *)
(* callbacks, pointer moves, resizes and unmount.                          *)
(*                                                                         *)
(* Numbers.  Coordinates and velocities are fixed point: one pixel is Unit *)
(* grid steps.  Distances are carried as their squares wherever the code   *)
(* only compares them (d < c  iff  d*d < c*c for non-negative d, c); the   *)
(* pointer force, which uses the distance itself, takes the integer square *)
(* root and rounds the displacement to the grid.  Packet progress and      *)
(* speed are in hundredths.                                                *)
(*                                                                         *)
(* The DataWiz page script (upload, ask, reset against /api) is modelled   *)
(* beside it, with its own variables and its own specification.            *)
(*                                                                         *)
(* So are an unmount followed by a remount of the component (SpecRemount), *)
(* the chat of the Analytics page (SpecChat) and the UploadInvoices page   *)
(* (SpecUpload).                                                           *)
(***************************************************************************)
EXTENDS Integers, Sequences, FiniteSets, TLC

\* ------------------------------------------------------------ bounds
Unit == 10           \* grid steps per pixel
NumParticles == 3    \* particles of the modelled field (the code: 80 / 60)
MaxEvents == 3       \* host signals (frames, pointer moves, resizes) explored
                     \* beyond the starting state
MaxSpawns == 1       \* a frame may spawn while fewer packets than this were pushed
MaxWarm == 23        \* frames a warmed-up starting state has run since its mount
MaxClicks == 4       \* user gestures on the DataWiz page (type, ask, pick a file, reset)

\* ------------------------------------------------- program constants
ArrivalPct == 100    \* pkt.progress >= 1
SpeedBasePct == 2    \* 0.02 + ...
SpeedSpanPct == 3    \* ... Math.random() * 0.03
SentinelPx == 1000   \* mouse = { x: -1000, y: -1000 }
ForceDenom == 100    \* the factors 0.03 and 0.02, as hundredths

Variants == {"repel", "attract"}

\* The configuration block of each variant.
connectionDistance(v) == IF v = "repel" THEN 180 * Unit ELSE 150 * Unit
mouseDistance(v) == IF v = "repel" THEN 250 * Unit ELSE 200 * Unit
\* A factor that pulls in both variants.
forceFactorPulling(v) == IF v = "repel" THEN 3 ELSE 2

\* p.x -= dx * force * 0.03 (repel)   /   p.x += dx * force * 0.02 (attract)
forceFactor(v) == IF v = "repel" THEN 0 - 3 ELSE 2
\* Only the first variant declares and animates packets.
hasPackets(v) == v = "repel"

particleCount == NumParticles
Indices == 0 .. (particleCount - 1)

\* ------------------------------------------------------------ helpers
Abs(a) == IF a < 0 THEN 0 - a ELSE a

\* a / b rounded to the nearest grid step, halves away from zero (b > 0).
RoundDiv(a, b) == IF a >= 0 THEN (2 * a + b) \div (2 * b)
                  ELSE 0 - ((2 * (0 - a) + b) \div (2 * b))

RECURSIVE SqrtSearch(_, _, _)
SqrtSearch(n, lo, hi) ==
    IF lo >= hi THEN lo
    ELSE LET mid == (lo + hi + 1) \div 2
         IN  IF mid * mid <= n THEN SqrtSearch(n, mid, hi)
             ELSE SqrtSearch(n, lo, mid - 1)

\* Math.sqrt, to the grid: the largest r with r*r <= n.
sqrt(n) == SqrtSearch(n, 0, 32767)

\* Math.hypot(a.x - b.x, a.y - b.y), squared.
hypot2(a, b) == (a.x - b.x) * (a.x - b.x) + (a.y - b.y) * (a.y - b.y)

\* ------------------------------------------------- environment inputs
\* window.innerWidth x window.innerHeight
WindowSizes == { [w |-> 300 * Unit, h |-> 200 * Unit],
                 [w |-> 150 * Unit, h |-> 100 * Unit] }
\* ... and at the time the page loads
InitialWindow == [w |-> 300 * Unit, h |-> 200 * Unit]

\* canvas.getBoundingClientRect()
Rect == [left |-> 0, top |-> 0]

\* e.clientX, e.clientY of the pointer-move signals
PointerPositions == { [x |-> 50 * Unit, y |-> 50 * Unit],
                      [x |-> 290 * Unit, y |-> 10 * Unit] }

\* What the particle initialiser can draw for a particle (x, y inside the
\* surface, vx, vy inside the velocity range of both variants): one near the
\* left edge leaving, one just inside the connection distance of it and
\* moving away, one at rest between the two, one about to come to exactly
\* the connection distance of the one at rest, one in the far corner.  Each
\* has a size of its own (1 <= size < 3 px), which nothing changes later.
SeedList ==
    << [x |-> 1,              y |-> 50 * Unit,      vx |-> 0 - 1, vy |-> 0, size |-> Unit],
       [x |-> 180 * Unit - 1, y |-> 50 * Unit,      vx |-> 1,     vy |-> 0, size |-> Unit + 4],
       [x |-> 90 * Unit,      y |-> 50 * Unit,      vx |-> 0,     vy |-> 0, size |-> Unit + 8],
       [x |-> 270 * Unit - 1, y |-> 50 * Unit,      vx |-> 1,     vy |-> 0, size |-> 2 * Unit + 2],
       [x |-> 300 * Unit - 1, y |-> 200 * Unit - 1, vx |-> 1,     vy |-> 1, size |-> 2 * Unit + 6] >>

\* The fields the model starts from: particle i is seed k + i (cyclically),
\* for every k that keeps x < width and y < height.
InitialFields(w, h) ==
    { f \in { [i \in Indices |-> SeedList[((k + i) % Len(SeedList)) + 1]] : k \in 0 .. (Len(SeedList) - 1) } :
        \A i \in Indices : f[i].x < w /\ f[i].y < h }

\* The draws of one frame: Math.random() < 0.05, the source particle
\* Math.floor(Math.random() * particleCount), and the speed
\* 0.02 + Math.random() * 0.03 (so 0.02 <= speed < 0.05).
NoSpawn == [spawn |-> FALSE, p1 |-> 0, speed |-> SpeedBasePct]
SpeedDraws == { SpeedBasePct, SpeedBasePct + SpeedSpanPct - 1 }
SpawnDraws == { [spawn |-> TRUE, p1 |-> i, speed |-> s] : i \in Indices, s \in SpeedDraws }

\* -------------------------------------------------------------- state
VARIABLES
    variant,     \* which of the two component sources is built
    phase,       \* "idle" | "mounted" | "unmounted"
    surface,     \* "ok" | "nocanvas" | "noctx": what the mount effect found
    window,      \* the host's window.innerWidth / innerHeight
    client,      \* the host's last pointer position (clientX, clientY)
    listeners,   \* the window listeners the component has registered
    rafPending,  \* the requestAnimationFrame(animate) callbacks that are pending
    width,       \* let width
    height,      \* let height
    mouse,       \* let mouse
    particles,   \* const particles, indexed from 0
    packets,     \* const packets
    spawned,     \* packets pushed so far (gives each packet its id)
    moves,       \* pointer-move signals delivered so far
    resizes,     \* resize signals delivered so far
    frames,      \* frame callbacks the host has run beyond the starting state
    frame,       \* what the last run of animate did and drew
    \* the DataWiz page script
    currentFile,    \* let currentFile
    questionInput,  \* questionInput.value
    chatShown,      \* chatSection has the class 'show'
    loading,        \* loading has the class 'show'
    messages,       \* the children of messages: "user" | "ai"
    uploads,        \* POST /api/upload requests awaiting their response
    asks,           \* POST /api/ask requests awaiting their response
    resets,         \* DELETE /api/reset requests awaiting their response
    shown,          \* the alert the last handler run raised, or "none"
    asked,          \* the last run of askQuestion: its serial, the text, sent or not
    uploadedSince,  \* an upload has succeeded and no reset has completed since
    cleared,        \* a completed reset has cleared a file that was uploaded
    clicks,         \* user gestures so far
    \* the particle fill and a second run of the animation
    alpha,          \* the alpha of each particle's fill in the last run of animate
    twin,           \* a second run fed the same signals and spawn draws
    \* the instances unmounted before the present one
    orphans,        \* the data of each whose frame callback is still pending
    \* the Analytics page: chat
    sessionId,      \* const [sessionId, setSessionId]
    input,          \* const [input, setInput]
    isLoadingChat,  \* const [isLoadingChat, setIsLoadingChat]
    chatMessages,   \* const [messages, setMessages] of the Analytics page
    inFlight,       \* AnalyticsService.askQuestion calls awaiting their response
    called,         \* the last call of handleSend: its serial and the input it read
    settled,        \* the last response: its serial, the request's, and what it carried
    chatSteps,      \* user gestures on the chat so far
    \* the UploadInvoices page
    mode,             \* const [mode, setMode]
    files,            \* const [files, setFiles], each with the mode it was added in
    uploading,        \* const [uploading, setUploading]
    uploadProgress,   \* const [progress, setProgress]
    storedSessionId,  \* localStorage 'current_session_id'
    navigations,      \* setTimeout(() => navigate(...), 800) timers scheduled
    flow,             \* the call of handleUpload that awaits a response, if any
    handled,          \* the last call of handleUpload that returned: how it ended
    gesture,          \* the last user gesture on the upload page
    uploadSteps       \* user gestures on the upload page so far

pageVars == << currentFile, questionInput, chatShown, loading, messages, uploads,
               asks, resets, shown, asked, uploadedSince, cleared, clicks >>

twinVars == << alpha, twin >>

chatVars == << sessionId, input, isLoadingChat, chatMessages, inFlight, called,
              settled, chatSteps >>

uploadVars == << mode, files, uploading, uploadProgress, storedSessionId, navigations,
                flow, handled, gesture, uploadSteps >>

appVars == << orphans, chatVars, uploadVars >>

\* What the canvas component's steps leave alone.
offCanvas == << pageVars, twinVars, appVars >>

vars == << variant, phase, surface, window, client, listeners, rafPending,
           width, height, mouse, particles, packets, spawned, moves, resizes,
           frames, frame, pageVars, twinVars, appVars >>

NoParticles == << >>
NoFlips == [i \in Indices |-> FALSE]

\* frame, before animate has ever run.
NoFrame == [ ran        |-> FALSE,
             prev       |-> NoParticles,   \* the particles as the frame found them
             p1         |-> 0 - 1,         \* the source particle of a spawn scan, or -1
             closest    |-> 0 - 1,         \* what the scan found
             afterSpawn |-> << >>,         \* the packets as the spawn block left them
             links      |-> {},            \* the pairs between which a line was stroked
             linksBefore |-> {},           \* the same, of the frame before
             pairs      |-> << >>,         \* the pairs examined, in order, with the distance
             dots       |-> << >>,         \* the packets drawn
             gone       |-> << >>,         \* the packets spliced out, with the reason
             flipX      |-> NoFlips,       \* whose vx was negated
             flipY      |-> NoFlips,
             flipXBefore |-> NoFlips,
             flipYBefore |-> NoFlips ]

\* ------------------------------------------------- animate: spawn packets
\* A scan that lets a later particle at the same distance win.
closerOrEqual(d, minDist) == d <= minDist

\* if (d < minDist)
closer(d, minDist) == d < minDist

\* A scan that does not pass over the source particle itself.
isSourceNever(p1, j) == FALSE

\* if (p1 === j) continue
isSource(p1, j) == p1 = j

RECURSIVE scanNeighbors(_, _, _, _, _)
\* for (let j = 0; j < particleCount; j++) { if (p1 === j) continue; ... }
scanNeighbors(parts, p1, j, closest, minDist) ==
    IF j >= particleCount THEN closest
    ELSE IF isSource(p1, j) THEN scanNeighbors(parts, p1, j + 1, closest, minDist)
    ELSE LET d == hypot2(parts[p1], parts[j])
         IN  IF closer(d, minDist)
             THEN scanNeighbors(parts, p1, j + 1, j, d)
             ELSE scanNeighbors(parts, p1, j + 1, closest, minDist)

\* let closest = -1; let minDist = connectionDistance; the scan
findCloseNeighbor(v, parts, p1) ==
    scanNeighbors(parts, p1, 0, 0 - 1, connectionDistance(v) * connectionDistance(v))

\* A push of a packet that is already one step on its way.
newPacketStarted(p1, closest, speed, id) ==
    [p1 |-> p1, p2 |-> closest, progress |-> speed, speed |-> speed, id |-> id, steps |-> 0]

\* packets.push({ p1, p2: closest, progress: 0, speed }); id and steps are
\* history: which push made the packet, how often it has been advanced.
newPacket(p1, closest, speed, id) ==
    [p1 |-> p1, p2 |-> closest, progress |-> 0, speed |-> speed, id |-> id, steps |-> 0]

\* The spawn block of animate: the packets after it, with what the scan did.
spawnPackets(v, parts, pkts, nextId, draw) ==
    IF ~(hasPackets(v) /\ draw.spawn)
    THEN [pkts |-> pkts, p1 |-> 0 - 1, closest |-> 0 - 1, pushed |-> 0]
    ELSE LET closest == findCloseNeighbor(v, parts, draw.p1)
         IN  IF closest # 0 - 1
             THEN [pkts |-> Append(pkts, newPacket(draw.p1, closest, draw.speed, nextId)),
                   p1 |-> draw.p1, closest |-> closest, pushed |-> 1]
             ELSE [pkts |-> pkts, p1 |-> draw.p1, closest |-> closest, pushed |-> 0]

\* An edge test that forgets the far edge.
outsideNearOnly(c, extent) == c < 0

\* ------------------------------------------- animate: update particles
\* if (p.x < 0 || p.x > width)
outside(c, extent) == c < 0 \/ c > extent

\* if (dist < mouseDistance)
inReach(dist, reach) == dist < reach

\* dx * force * 0.03 with force = (mouseDistance - dist) / mouseDistance,
\* signed as the variant applies it to the coordinate.
displacement(v, d, dist) ==
    RoundDiv(d * (mouseDistance(v) - dist) * forceFactor(v), mouseDistance(v) * ForceDenom)

\* One pass of the forEach body over particle p, up to the drawing.
updateParticle(v, p, m, w, h) ==
    LET x1 == p.x + p.vx
        y1 == p.y + p.vy
        fx == outside(x1, w)
        fy == outside(y1, h)
        vx1 == IF fx THEN 0 - p.vx ELSE p.vx
        vy1 == IF fy THEN 0 - p.vy ELSE p.vy
        dx == m.x - x1
        dy == m.y - y1
        dist == sqrt(dx * dx + dy * dy)
        hit == inReach(dist, mouseDistance(v))
    IN  [ p |-> [ x  |-> IF hit THEN x1 + displacement(v, dx, dist) ELSE x1,
                  y  |-> IF hit THEN y1 + displacement(v, dy, dist) ELSE y1,
                  vx |-> vx1,
                  vy |-> vy1,
                  size |-> p.size ],
          flipX |-> fx,
          flipY |-> fy ]

\* A connection test that also strokes a pair exactly at the threshold.
linkedOrEqual(dist2, cd) == dist2 <= cd

\* if (dist2 < connectionDistance)
linked(dist2, cd) == dist2 < cd

RECURSIVE connections(_, _, _, _, _)
\* for (let j = i + 1; j < particles.length; j++): the pairs examined from
\* particle i on, in order, each with the distance computed and whether a
\* line was stroked.
connections(v, parts, i, j, acc) ==
    IF j >= particleCount THEN acc
    ELSE LET dist2 == hypot2(parts[i], parts[j])
             cd == connectionDistance(v) * connectionDistance(v)
         IN  connections(v, parts, i, j + 1,
                 Append(acc, [i |-> i, j |-> j, dist2 |-> dist2,
                              stroke |-> linked(dist2, cd)]))

RECURSIVE forEachParticle(_, _, _, _, _, _, _)
\* particles.forEach((p, i) => ...): particle i is moved, then its
\* connections to the particles after it are drawn, then particle i + 1.
\* acc = [parts, pairs, flipX, flipY].
forEachParticle(v, i, m, w, h, acc, last) ==
    IF i > last THEN acc
    ELSE LET u == updateParticle(v, acc.parts[i], m, w, h)
             parts1 == [acc.parts EXCEPT ![i] = u.p]
         IN  forEachParticle(v, i + 1, m, w, h,
                 [ parts |-> parts1,
                   pairs |-> connections(v, parts1, i, i + 1, acc.pairs),
                   flipX |-> [acc.flipX EXCEPT ![i] = u.flipX],
                   flipY |-> [acc.flipY EXCEPT ![i] = u.flipY] ],
                 last)

updateParticles(v, parts, m, w, h) ==
    forEachParticle(v, 0, m, w, h,
        [parts |-> parts, pairs |-> << >>, flipX |-> NoFlips, flipY |-> NoFlips],
        particleCount - 1)

\* --------------------------------------------- animate: update packets
\* An advance step that also speeds the packet up.
advancedAccelerating(pkt) == [pkt EXCEPT !.progress = pkt.progress + pkt.speed,
                                         !.speed = pkt.speed + 1,
                                         !.steps = pkt.steps + 1]

\* pkt.progress += pkt.speed
advanced(pkt) == [pkt EXCEPT !.progress = pkt.progress + pkt.speed,
                             !.steps = pkt.steps + 1]

\* An arrival test that keeps a packet whose progress is exactly 1.
arrivedPast(progress) == progress > ArrivalPct

\* if (pkt.progress >= 1)
arrived(progress) == progress >= ArrivalPct

\* A validity test with the comparison the wrong way round.
linkLostInverted(dist, cd) == dist < cd

\* if (dist > connectionDistance)
linkLost(dist, cd) == dist > cd

\* packets.splice(i, 1), i counted from 1
splice(pkts, i) == SubSeq(pkts, 1, i - 1) \o SubSeq(pkts, i + 1, Len(pkts))

RECURSIVE sweepPackets(_, _, _, _, _)
\* for (let i = packets.length - 1; i >= 0; i--), i counted from 1.
\* acc = [pkts, dots, gone].
sweepPackets(v, parts, i, acc, stop) ==
    IF i < stop THEN acc
    ELSE LET pkt == advanced(acc.pkts[i])
             pkts1 == [acc.pkts EXCEPT ![i] = pkt]
             cd == connectionDistance(v) * connectionDistance(v)
         IN  IF arrived(pkt.progress)
             THEN sweepPackets(v, parts, i - 1,
                      [ pkts |-> splice(pkts1, i), dots |-> acc.dots,
                        gone |-> Append(acc.gone, [pkt |-> pkt, why |-> "arrived"]) ],
                      stop)
             ELSE IF linkLost(hypot2(parts[pkt.p1], parts[pkt.p2]), cd)
             THEN sweepPackets(v, parts, i - 1,
                      [ pkts |-> splice(pkts1, i), dots |-> acc.dots,
                        gone |-> Append(acc.gone, [pkt |-> pkt, why |-> "linkLost"]) ],
                      stop)
             ELSE sweepPackets(v, parts, i - 1,
                      [ pkts |-> pkts1, dots |-> Append(acc.dots, pkt),
                        gone |-> acc.gone ],
                      stop)

RECURSIVE sweepForward(_, _, _, _)
\* A sweep that counts upwards: after a splice at i the packet that moved
\* into place i is passed over.
sweepForward(v, parts, i, acc) ==
    IF i > Len(acc.pkts) THEN acc
    ELSE LET pkt == advanced(acc.pkts[i])
             pkts1 == [acc.pkts EXCEPT ![i] = pkt]
             cd == connectionDistance(v) * connectionDistance(v)
         IN  IF arrived(pkt.progress)
             THEN sweepForward(v, parts, i + 1,
                      [ pkts |-> splice(pkts1, i), dots |-> acc.dots,
                        gone |-> Append(acc.gone, [pkt |-> pkt, why |-> "arrived"]) ])
             ELSE IF linkLost(hypot2(parts[pkt.p1], parts[pkt.p2]), cd)
             THEN sweepForward(v, parts, i + 1,
                      [ pkts |-> splice(pkts1, i), dots |-> acc.dots,
                        gone |-> Append(acc.gone, [pkt |-> pkt, why |-> "linkLost"]) ])
             ELSE sweepForward(v, parts, i + 1,
                      [ pkts |-> pkts1, dots |-> Append(acc.dots, pkt),
                        gone |-> acc.gone ])

updatePacketsForward(v, parts, pkts) ==
    IF hasPackets(v)
    THEN sweepForward(v, parts, 1, [pkts |-> pkts, dots |-> << >>, gone |-> << >>])
    ELSE [pkts |-> pkts, dots |-> << >>, gone |-> << >>]

updatePackets(v, parts, pkts) ==
    IF hasPackets(v)
    THEN sweepPackets(v, parts, Len(pkts), [pkts |-> pkts, dots |-> << >>, gone |-> << >>], 1)
    ELSE [pkts |-> pkts, dots |-> << >>, gone |-> << >>]

\* ------------------------------------------------------------ animate
strokes(pairs) == { << pairs[k].i, pairs[k].j >> : k \in {n \in DOMAIN pairs : pairs[n].stroke} }

\* A frame that spawns after the sweep: a new packet waits for the next
\* frame to be advanced.
animateSpawnLast(v, st, m, w, h, draw) ==
    LET up == updateParticles(v, st.particles, m, w, h)
        sw == updatePackets(v, up.parts, st.packets)
        sp == spawnPackets(v, st.particles, sw.pkts, st.spawned + 1, draw)
    IN  [ particles |-> up.parts,
          packets   |-> sp.pkts,
          spawned   |-> st.spawned + sp.pushed,
          requests  |-> 1,
          frame     |-> [ ran         |-> TRUE,
                          prev        |-> st.particles,
                          p1          |-> sp.p1,
                          closest     |-> sp.closest,
                          afterSpawn  |-> sp.pkts,
                          links       |-> strokes(up.pairs),
                          linksBefore |-> st.frame.links,
                          pairs       |-> up.pairs,
                          dots        |-> sw.dots,
                          gone        |-> sw.gone,
                          flipX       |-> up.flipX,
                          flipY       |-> up.flipY,
                          flipXBefore |-> st.frame.flipX,
                          flipYBefore |-> st.frame.flipY ] ]

\* A frame that sweeps the packets before it has moved the particles.
animatePacketsFirst(v, st, m, w, h, draw) ==
    LET sp == spawnPackets(v, st.particles, st.packets, st.spawned + 1, draw)
        sw == updatePackets(v, st.particles, sp.pkts)
        up == updateParticles(v, st.particles, m, w, h)
    IN  [ particles |-> up.parts,
          packets   |-> sw.pkts,
          spawned   |-> st.spawned + sp.pushed,
          requests  |-> 1,
          frame     |-> [ ran         |-> TRUE,
                          prev        |-> st.particles,
                          p1          |-> sp.p1,
                          closest     |-> sp.closest,
                          afterSpawn  |-> sp.pkts,
                          links       |-> strokes(up.pairs),
                          linksBefore |-> st.frame.links,
                          pairs       |-> up.pairs,
                          dots        |-> sw.dots,
                          gone        |-> sw.gone,
                          flipX       |-> up.flipX,
                          flipY       |-> up.flipY,
                          flipXBefore |-> st.frame.flipX,
                          flipYBefore |-> st.frame.flipY ] ]

\* One run of animate on the component's data st = [particles, packets,
\* spawned, frame]: spawn, particles and connections, packets, and the one
\* request for the next frame.
animate(v, st, m, w, h, draw) ==
    LET sp == spawnPackets(v, st.particles, st.packets, st.spawned + 1, draw)
        up == updateParticles(v, st.particles, m, w, h)
        sw == updatePackets(v, up.parts, sp.pkts)
    IN  [ particles |-> up.parts,
          packets   |-> sw.pkts,
          spawned   |-> st.spawned + sp.pushed,
          requests  |-> 1,                   \* requestAnimationFrame(animate)
          frame     |-> [ ran         |-> TRUE,
                          prev        |-> st.particles,
                          p1          |-> sp.p1,
                          closest     |-> sp.closest,
                          afterSpawn  |-> sp.pkts,
                          links       |-> strokes(up.pairs),
                          linksBefore |-> st.frame.links,
                          pairs       |-> up.pairs,
                          dots        |-> sw.dots,
                          gone        |-> sw.gone,
                          flipX       |-> up.flipX,
                          flipY       |-> up.flipY,
                          flipXBefore |-> st.frame.flipX,
                          flipYBefore |-> st.frame.flipY ] ]

\* The draws a frame can make.
Draws(v, n) == IF hasPackets(v) /\ n < MaxSpawns THEN {NoSpawn} \cup SpawnDraws ELSE {NoSpawn}

\* ------------------------------------------------ the DataWiz page: data
NoFile == "null"                              \* let currentFile = null
FileExts == [ f \in {"sales.csv", "Q1.XLSX", "notes.pdf"} |->
                IF f = "sales.csv" THEN ".csv" ELSE IF f = "Q1.XLSX" THEN ".xlsx" ELSE ".pdf" ]
Files == DOMAIN FileExts
Trimmed == [ q \in {"", "  ", " total? "} |-> IF q = " total? " THEN "total?" ELSE "" ]
Typed == DOMAIN Trimmed
NeverAsked == [n |-> 0, question |-> "", sent |-> FALSE]

\* No particle filled yet, no second run.
NoAlpha == << >>
NoTwin == [particles |-> NoParticles, packets |-> << >>, spawned |-> 0, alpha |-> NoAlpha]
InitTwin == alpha = NoAlpha /\ twin = NoTwin

\* ------------------------------------------------ the Analytics chat: data
NoSession == "null"                           \* localStorage.getItem(...) === null
ChatTrimmed == [ q \in {"", "  ", " profit? "} |-> IF q = " profit? " THEN "profit?" ELSE "" ]
ChatTyped == DOMAIN ChatTrimmed
\* data.answer of a response: a text, or none (undefined or empty, both falsy)
NoAnswer == ""
Answers == {NoAnswer, "The profit is 42."}
GreetingText == "I'm ready to analyze your financial data."
FallbackText == "I processed that, but I'm not sure how to answer."
ErrorText == "I encountered an error while analyzing the data. Please try again."
NeverCalled == [n |-> 0, text |-> ""]
NeverSettled == [n |-> 0, request |-> 0, ok |-> FALSE, answer |-> NoAnswer]

\* The Analytics page before its mount effect has run.
InitChat ==
    /\ sessionId = NoSession
    /\ input = ""
    /\ isLoadingChat = FALSE
    /\ chatMessages = << >>
    /\ inFlight = << >>
    /\ called = NeverCalled
    /\ settled = NeverSettled
    /\ chatSteps = 0

\* --------------------------------------------- the UploadInvoices page: data
\* The files the user can pick or drop: file.name, with file.type and whether
\* the name ends in '.csv'.
FileTypes == [ f \in {"inv.pdf", "scan.png", "sales.csv", "costs.csv"} |->
                 IF f = "inv.pdf" THEN "application/pdf"
                 ELSE IF f = "scan.png" THEN "image/png" ELSE "text/csv" ]
ImageTypes == {"image/png"}                   \* file.type.startsWith('image/')
CsvNames == {"sales.csv", "costs.csv"}        \* file.name.endsWith('.csv')
\* What one drop or one file dialog can deliver.
Batches == { << f >> : f \in DOMAIN FileTypes } \cup
           { << "sales.csv", "costs.csv" >>, << "inv.pdf", "sales.csv" >>,
             << "inv.pdf", "scan.png" >> }
SessionIds == {"s1", "s2"}                    \* uploadRes.data.session_id
NoFlow == [stage |-> "idle", mode |-> "invoices", files |-> << >>, sessionId |-> NoSession,
           succeeded |-> << >>, storedBefore |-> NoSession, navigationsBefore |-> << >>]
NeverHandled == [n |-> 0, failed |-> FALSE, flow |-> NoFlow]
NoGesture == [n |-> 0, kind |-> "none"]

\* The UploadInvoices page as first rendered, with what local storage holds.
InitUpload(stored) ==
    /\ mode = "invoices"
    /\ files = << >>
    /\ uploading = FALSE
    /\ uploadProgress = 0
    /\ storedSessionId = stored
    /\ navigations = << >>
    /\ flow = NoFlow
    /\ handled = NeverHandled
    /\ gesture = NoGesture
    /\ uploadSteps = 0

\* No instance was mounted before, no page of the application visited.
InitApp == orphans = << >> /\ InitChat /\ InitUpload(NoSession)

\* The page before any gesture.
InitPage ==
    /\ currentFile = NoFile
    /\ questionInput = ""
    /\ chatShown = FALSE
    /\ loading = FALSE
    /\ messages = << >>
    /\ uploads = << >>
    /\ asks = << >>
    /\ resets = 0
    /\ shown = "none"
    /\ asked = NeverAsked
    /\ uploadedSince = FALSE
    /\ cleared = FALSE
    /\ clicks = 0

\* ------------------------------------------------------- the component
Sentinel == [x |-> 0 - SentinelPx * Unit, y |-> 0 - SentinelPx * Unit]

\* A mount guard that forgets to test the rendering context.
setupRunsWithoutContext(s) == s # "nocanvas"

\* const canvas = canvasRef.current; if (!canvas) return;
\* const ctx = canvas.getContext('2d'); if (!ctx) return;
setupRuns(s) == s = "ok"

\* window.addEventListener('mousemove', ...); window.addEventListener('resize', ...)
registered == {"mousemove", "resize"}

\* A teardown that forgets the resize listener.
cleanupLeavesResize(ls) == ls \ {"mousemove"}

\* The function the effect returns: both listeners are removed.
cleanup(ls) == ls \ {"mousemove", "resize"}

\* mouse.x = e.clientX - rect.left; mouse.y = e.clientY - rect.top
handleMouseMove(e, rect) == [x |-> e.x - rect.left, y |-> e.y - rect.top]

\* width = canvas.width = window.innerWidth; height = canvas.height = window.innerHeight
handleResize(win) == [w |-> win.w, h |-> win.h]

InitCanvas ==
    /\ variant \in Variants
    /\ phase = "idle"
    /\ surface = "unknown"
    /\ window = InitialWindow
    /\ client = [x |-> 0, y |-> 0]
    /\ listeners = {}
    /\ rafPending = 0
    /\ width = 0
    /\ height = 0
    /\ mouse = Sentinel
    /\ particles = NoParticles
    /\ packets = << >>
    /\ spawned = 0
    /\ moves = 0
    /\ resizes = 0
    /\ frames = 0
    /\ frame = NoFrame

\* The application as loaded: the component not yet mounted, no page used.
Init == InitCanvas /\ InitPage /\ InitTwin /\ InitApp

\* The mount effect: the guards, the set-up, the first call of animate, which
\* requests the next frame.
Mount ==
    /\ phase = "idle"
    /\ phase' = "mounted"
    /\ \E s \in {"ok", "nocanvas", "noctx"} :
        /\ surface' = s
        /\ IF setupRuns(s)
           THEN \E field \in InitialFields(window.w, window.h), draw \in Draws(variant, spawned) :
                  \E st \in { animate(variant,
                                    [particles |-> field, packets |-> << >>,
                                     spawned |-> 0, frame |-> NoFrame],
                                    Sentinel, window.w, window.h, draw) } :
                      /\ width' = window.w
                      /\ height' = window.h
                      /\ mouse' = Sentinel
                      /\ listeners' = registered
                      /\ particles' = st.particles
                      /\ packets' = st.packets
                      /\ spawned' = st.spawned
                      /\ frame' = st.frame
                      /\ rafPending' = st.requests
           ELSE UNCHANGED << width, height, mouse, listeners, particles, packets,
                             spawned, frame, rafPending >>
    /\ UNCHANGED << variant, window, client, moves, resizes, frames, offCanvas >>

\* The host runs the pending frame callback: animate, which requests the
\* next one.
HostFrame ==
    /\ rafPending > 0
    /\ frames + moves + resizes < MaxEvents
    /\ \E draw \in Draws(variant, spawned) :
          \E st \in { animate(variant,
                            [particles |-> particles, packets |-> packets,
                             spawned |-> spawned, frame |-> frame],
                            mouse, width, height, draw) } :
              /\ particles' = st.particles
              /\ packets' = st.packets
              /\ spawned' = st.spawned
              /\ frame' = st.frame
              /\ rafPending' = (rafPending - 1) + st.requests
    /\ frames' = frames + 1
    /\ UNCHANGED << variant, phase, surface, window, client, listeners, width,
                    height, mouse, moves, resizes, offCanvas >>

\* The host delivers a pointer move to the window's listeners.
HostMouseMove ==
    /\ phase # "idle"
    /\ frames + moves + resizes < MaxEvents
    /\ \E e \in PointerPositions :
        /\ client' = e
        /\ mouse' = IF "mousemove" \in listeners THEN handleMouseMove(e, Rect) ELSE mouse
    /\ moves' = moves + 1
    /\ UNCHANGED << variant, phase, surface, window, listeners, rafPending, width,
                    height, particles, packets, spawned, resizes, frames, frame, offCanvas >>

\* A resize in which the listener also empties the packet collection.
HostResizeDroppingPackets ==
    /\ phase # "idle"
    /\ frames + moves + resizes < MaxEvents
    /\ \E win \in WindowSizes \ {window} :
        /\ window' = win
        /\ width' = IF "resize" \in listeners THEN handleResize(win).w ELSE width
        /\ height' = IF "resize" \in listeners THEN handleResize(win).h ELSE height
    /\ packets' = IF "resize" \in listeners THEN << >> ELSE packets
    /\ resizes' = resizes + 1
    /\ UNCHANGED << variant, phase, surface, client, listeners, rafPending, mouse,
                    particles, spawned, moves, frames, frame, offCanvas >>

\* The host resizes the window and tells the window's listeners.
HostResize ==
    /\ phase # "idle"
    /\ frames + moves + resizes < MaxEvents
    /\ \E win \in WindowSizes \ {window} :
        /\ window' = win
        /\ width' = IF "resize" \in listeners THEN handleResize(win).w ELSE width
        /\ height' = IF "resize" \in listeners THEN handleResize(win).h ELSE height
    /\ resizes' = resizes + 1
    /\ UNCHANGED << variant, phase, surface, client, listeners, rafPending, mouse,
                    particles, packets, spawned, moves, frames, frame, offCanvas >>

\* The host unmounts the component: React runs the function the effect
\* returned, if it returned one.
Unmount ==
    /\ phase = "mounted"
    /\ phase' = "unmounted"
    /\ listeners' = IF setupRuns(surface) THEN cleanup(listeners) ELSE listeners
    /\ UNCHANGED << variant, surface, window, client, rafPending, width, height,
                    mouse, particles, packets, spawned, moves, resizes, frames, frame,
                    offCanvas >>

Next == Mount \/ HostFrame \/ HostMouseMove \/ HostResize \/ Unmount

Spec == Init /\ [][Next]_vars

\* ------------------------------------------- warmed-up starting states
RECURSIVE runFrames(_, _, _, _, _, _)
\* k further frames without a spawn, the pointer never moved.  (Each frame's
\* result is bound as a value before the next frame reads it.)
runFrames(v, st, m, w, h, k) ==
    IF k = 0 THEN st
    ELSE CHOOSE r \in { runFrames(v, next, m, w, h, k - 1) :
                        next \in { animate(v, st, m, w, h, NoSpawn) } } : TRUE

\* The component's data some frames after a mount in which the first run of
\* animate spawned a packet of the greatest speed and the second run made
\* draw d2: a state the component reaches from Init by Mount and k times
\* HostFrame.
warmed(v, field, d1, d2, k) ==
    LET w == InitialWindow.w
        h == InitialWindow.h
        st0 == [particles |-> field, packets |-> << >>, spawned |-> 0, frame |-> NoFrame]
    IN  CHOOSE r \in { runFrames(v, st2, Sentinel, w, h, k - 1) :
                       st2 \in { animate(v, st1, Sentinel, w, h, d2) :
                                 st1 \in { animate(v, st0, Sentinel, w, h, d1) } } } : TRUE

WarmFrames == (MaxWarm - 2) .. MaxWarm

InitWarm ==
    /\ variant = "repel"
    /\ phase = "mounted"
    /\ surface = "ok"
    /\ window = InitialWindow
    /\ client = [x |-> 0, y |-> 0]
    /\ listeners = registered
    /\ rafPending = 1
    /\ width = InitialWindow.w
    /\ height = InitialWindow.h
    /\ mouse = Sentinel
    /\ moves = 0
    /\ resizes = 0
    /\ frames = 0
    /\ \E field \in InitialFields(InitialWindow.w, InitialWindow.h),
          d1 \in {d \in SpawnDraws : d.speed = SpeedBasePct + SpeedSpanPct - 1},
          d2 \in {NoSpawn} \cup {d \in SpawnDraws : d.speed = SpeedBasePct},
          k \in WarmFrames :
          \E st \in { warmed("repel", field, d1, d2, k) } :
              /\ particles = st.particles
              /\ packets = st.packets
              /\ spawned = st.spawned
              /\ frame = st.frame
    /\ InitPage
    /\ InitTwin
    /\ InitApp

NextWarm == HostFrame \/ HostMouseMove \/ HostResize \/ Unmount

SpecWarm == InitWarm /\ [][NextWarm]_vars

\* --------------------------------------------- the DataWiz page: script
canvasVars == << variant, phase, surface, window, client, listeners, rafPending,
                 width, height, mouse, particles, packets, spawned, moves, resizes,
                 frames, frame >>

canvasVarsButFrames == << variant, phase, surface, window, client, listeners,
                         rafPending, width, height, mouse, particles, packets,
                         spawned, moves, resizes, frame >>

\* What the page script's steps leave alone.
offPage == << canvasVars, twinVars, appVars >>

\* const validTypes = ['.csv', '.xlsx', '.xls']; validTypes.includes(fileExt)
validTypes == {".csv", ".xlsx", ".xls"}

\* A file test that takes the name of a file for a file.
hasFileOrName(file) == TRUE

\* if (!currentFile): null is falsy, a file name is not
hasFile(file) == file # NoFile

\* The user types into the question box.
TypeQuestion ==
    /\ clicks < MaxClicks
    /\ \E q \in Typed \ {questionInput} : questionInput' = q
    /\ clicks' = clicks + 1
    /\ UNCHANGED << currentFile, chatShown, loading, messages, uploads, asks, resets,
                    shown, asked, uploadedSince, cleared, offPage >>

\* askQuestion, up to the await of fetch('/api/ask').
AskQuestion ==
    /\ clicks < MaxClicks
    /\ clicks' = clicks + 1
    /\ LET question == Trimmed[questionInput]
       IN  IF question = ""
           THEN /\ asked' = [n |-> asked.n + 1, question |-> questionInput, sent |-> FALSE]
                /\ shown' = "none"
                /\ UNCHANGED << messages, questionInput, loading, asks >>
           ELSE IF ~hasFile(currentFile)
           THEN /\ asked' = [n |-> asked.n + 1, question |-> questionInput, sent |-> FALSE]
                /\ shown' = "Please upload a file first."
                /\ UNCHANGED << messages, questionInput, loading, asks >>
           ELSE /\ asked' = [n |-> asked.n + 1, question |-> questionInput, sent |-> TRUE]
                /\ shown' = "none"
                /\ messages' = Append(messages, "user")
                /\ questionInput' = ""
                /\ loading' = TRUE
                /\ asks' = Append(asks, question)
    /\ UNCHANGED << currentFile, chatShown, uploads, resets, uploadedSince, cleared,
                    offPage >>

\* askQuestion, from the response of /api/ask on; fetch rejects, or the
\* response is not ok, or it is.
AskResponse ==
    /\ asks # << >>
    /\ \E k \in DOMAIN asks, outcome \in {"ok", "notOk", "rejected"} :
        /\ asks' = SubSeq(asks, 1, k - 1) \o SubSeq(asks, k + 1, Len(asks))
        /\ messages' = Append(messages, "ai")
        /\ shown' = IF outcome = "ok" THEN "none" ELSE "Analysis failed"
    /\ loading' = FALSE
    /\ UNCHANGED << currentFile, questionInput, chatShown, uploads, resets, asked,
                    uploadedSince, cleared, clicks, offPage >>

\* handleFileUpload, up to the await of fetch('/api/upload').
PickFile ==
    /\ clicks < MaxClicks
    /\ clicks' = clicks + 1
    /\ \E file \in Files :
          IF FileExts[file] \notin validTypes
          THEN /\ shown' = "Please upload a CSV or Excel file."
               /\ UNCHANGED << loading, uploads >>
          ELSE /\ shown' = "none"
               /\ loading' = TRUE
               /\ uploads' = Append(uploads, file)
    /\ UNCHANGED << currentFile, questionInput, chatShown, messages, asks, resets,
                    asked, uploadedSince, cleared, offPage >>

\* handleFileUpload, from the response of /api/upload on.
UploadResponse ==
    /\ uploads # << >>
    /\ \E k \in DOMAIN uploads, outcome \in {"ok", "notOk", "rejected"} :
        /\ uploads' = SubSeq(uploads, 1, k - 1) \o SubSeq(uploads, k + 1, Len(uploads))
        /\ IF outcome = "ok"
           THEN /\ currentFile' = uploads[k]
                /\ chatShown' = TRUE
                /\ uploadedSince' = TRUE
                /\ shown' = "none"
           ELSE /\ shown' = "Upload failed"
                /\ UNCHANGED << currentFile, chatShown, uploadedSince >>
    /\ loading' = FALSE
    /\ UNCHANGED << questionInput, messages, asks, resets, asked, cleared, clicks,
                    offPage >>

\* The reset button: confirm(...), then resetSession up to the await of
\* fetch('/api/reset').
ClickReset ==
    /\ clicks < MaxClicks
    /\ clicks' = clicks + 1
    /\ \E confirmed \in BOOLEAN : resets' = IF confirmed THEN resets + 1 ELSE resets
    /\ shown' = "none"
    /\ UNCHANGED << currentFile, questionInput, chatShown, loading, messages, uploads,
                    asks, asked, uploadedSince, cleared, offPage >>

\* resetSession, from the response of /api/reset on: whatever its status,
\* the page is cleared; only a rejected fetch leaves it as it is.
ResetResponse ==
    /\ resets > 0
    /\ resets' = resets - 1
    /\ \E outcome \in {"ok", "notOk", "rejected"} :
          IF outcome # "rejected"
          THEN /\ currentFile' = NoFile
               /\ chatShown' = FALSE
               /\ messages' = << >>
               /\ questionInput' = ""
               /\ uploadedSince' = FALSE
               /\ cleared' = (cleared \/ uploadedSince)
               /\ shown' = "none"
          ELSE /\ shown' = "Failed to fetch"
               /\ UNCHANGED << currentFile, chatShown, messages, questionInput,
                               uploadedSince, cleared >>
    /\ UNCHANGED << loading, uploads, asks, asked, clicks, offPage >>

NextPage ==
    \/ TypeQuestion \/ AskQuestion \/ AskResponse
    \/ PickFile \/ UploadResponse \/ ClickReset \/ ResetResponse

SpecPage == Init /\ [][NextPage]_vars

\* ------------------------------- starting states with a packet of 0.05
\* The upper end of the speed range, 0.02 + 0.03: the draw itself stays
\* below it (Math.random() < 1).
TopSpeedPct == SpeedBasePct + SpeedSpanPct
TopSpeedDraws == { [spawn |-> TRUE, p1 |-> i, speed |-> TopSpeedPct] : i \in Indices }

\* The frames a packet of that speed needs, less those of the slowest-arriving
\* packet of InitWarm: the starting states are as far from the arrival.
TopSpeedLead == (ArrivalPct \div (TopSpeedPct - 1)) - (ArrivalPct \div TopSpeedPct)

\* The component's data some frames after a mount whose first run of animate
\* pushed a packet created with progress 0 and speed 0.05.
InitTopSpeed ==
    /\ variant = "repel"
    /\ phase = "mounted"
    /\ surface = "ok"
    /\ window = InitialWindow
    /\ client = [x |-> 0, y |-> 0]
    /\ listeners = registered
    /\ rafPending = 1
    /\ width = InitialWindow.w
    /\ height = InitialWindow.h
    /\ mouse = Sentinel
    /\ moves = 0
    /\ resizes = 0
    /\ frames = 0
    /\ \E field \in InitialFields(InitialWindow.w, InitialWindow.h),
          d1 \in TopSpeedDraws,
          k \in { f - TopSpeedLead : f \in WarmFrames } :
          \E st \in { warmed("repel", field, d1, NoSpawn, k) } :
              /\ particles = st.particles
              /\ packets = st.packets
              /\ spawned = st.spawned
              /\ frame = st.frame
    /\ InitPage
    /\ InitTwin
    /\ InitApp

SpecTopSpeed == InitTopSpeed /\ [][NextWarm]_vars

\* ------------------------------------- two runs with different flicker
\* The draws Math.random() of the particle fill, in hundredths, one per
\* particle: all at the bottom of the range, or every other one at the top.
LeastFlicker == [i \in Indices |-> 0]
Flickers == { LeastFlicker, [i \in Indices |-> IF i % 2 = 0 THEN 99 ELSE 0] }

\* 0.2 + (Math.random() * 0.1), and 0.1 + (Math.random() * 0.05) in the
\* second variant, in ten-thousandths.
fillAlpha(v, r) == IF v = "repel" THEN 2000 + r * 10 ELSE 1000 + r * 5

\* A fill whose draw also nudges the particle it fills.
fillParticlesJitter(v, run, flicker) ==
    [ run   |-> [run EXCEPT !.particles =
                    [i \in Indices |-> [run.particles[i] EXCEPT
                                           !.x = run.particles[i].x + flicker[i]]]],
      alpha |-> [i \in Indices |-> fillAlpha(v, flicker[i])] ]

\* The fills of one run of animate (ctx.arc, ctx.fillStyle = ..., ctx.fill
\* for every particle): what the run leaves in the component's data, and the
\* alpha each particle was filled with.
fillParticles(v, run, flicker) ==
    [ run   |-> run,
      alpha |-> [i \in Indices |-> fillAlpha(v, flicker[i])] ]

\* The component's own data, as animate takes it.
own == [particles |-> particles, packets |-> packets, spawned |-> spawned, frame |-> frame]

\* The mount effect of two runs that find the same surface and draw the same
\* particles and the same spawn draw, but different flicker (the first run
\* the least draws, the second any others: which run is which is immaterial).
MountTwin ==
    /\ phase = "idle"
    /\ phase' = "mounted"
    /\ surface' = "ok"
    /\ \E field \in InitialFields(window.w, window.h), draw \in Draws(variant, spawned) :
          \E ra \in { animate(variant,
                              [particles |-> field, packets |-> << >>,
                               spawned |-> 0, frame |-> NoFrame],
                              Sentinel, window.w, window.h, draw) },
             rb \in { animate(variant,
                              [particles |-> field, packets |-> << >>,
                               spawned |-> 0, frame |-> NoFrame],
                              Sentinel, window.w, window.h, draw) } :
          \E f1 \in {LeastFlicker} :
          \E f2 \in Flickers \ {f1} :
          \E a \in { fillParticles(variant, ra, f1) }, b \in { fillParticles(variant, rb, f2) } :
              /\ width' = window.w
              /\ height' = window.h
              /\ mouse' = Sentinel
              /\ listeners' = registered
              /\ particles' = a.run.particles
              /\ packets' = a.run.packets
              /\ spawned' = a.run.spawned
              /\ frame' = a.run.frame
              /\ rafPending' = a.run.requests
              /\ alpha' = a.alpha
              /\ twin' = [particles |-> b.run.particles, packets |-> b.run.packets,
                          spawned |-> b.run.spawned, alpha |-> b.alpha]
    /\ UNCHANGED << variant, window, client, moves, resizes, frames, pageVars,
                    appVars >>

\* The host runs the pending frame callback of both runs.  (The second run
\* keeps no history record; animate reads it only to extend it.)
HostFrameTwin ==
    /\ rafPending > 0
    /\ frames + moves + resizes < MaxEvents
    /\ \E draw \in Draws(variant, spawned) :
          \E ra \in { animate(variant, own, mouse, width, height, draw) },
             rb \in { animate(variant,
                              [particles |-> twin.particles, packets |-> twin.packets,
                               spawned |-> twin.spawned, frame |-> frame],
                              mouse, width, height, draw) } :
          \E f1 \in {LeastFlicker} :
          \E f2 \in Flickers \ {f1} :
          \E a \in { fillParticles(variant, ra, f1) }, b \in { fillParticles(variant, rb, f2) } :
              /\ particles' = a.run.particles
              /\ packets' = a.run.packets
              /\ spawned' = a.run.spawned
              /\ frame' = a.run.frame
              /\ rafPending' = (rafPending - 1) + a.run.requests
              /\ alpha' = a.alpha
              /\ twin' = [particles |-> b.run.particles, packets |-> b.run.packets,
                          spawned |-> b.run.spawned, alpha |-> b.alpha]
    /\ frames' = frames + 1
    /\ UNCHANGED << variant, phase, surface, window, client, listeners, width,
                    height, mouse, moves, resizes, pageVars, appVars >>

NextTwin == MountTwin \/ HostFrameTwin \/ HostMouseMove \/ HostResize \/ Unmount

SpecTwin == Init /\ [][NextTwin]_vars

\* ------------------------------------------ unmount followed by remount
MaxRemounts == 1

\* What an instance's frame callback closes over, and the requests it has
\* pending.
closure == [ particles |-> particles, packets |-> packets, spawned |-> spawned,
             frame |-> frame, width |-> width, height |-> height, mouse |-> mouse,
             pending |-> rafPending ]

\* The host mounts the component again after an unmount: a new instance, whose
\* mount effect runs afresh.  Nothing cancelled what the instance before had
\* requested, so that stays pending with the data it closes over.
Remount ==
    /\ phase = "unmounted"
    /\ Len(orphans) < MaxRemounts
    /\ phase' = "mounted"
    /\ orphans' = IF rafPending > 0 THEN Append(orphans, closure) ELSE orphans
    /\ \E s \in {"ok", "nocanvas", "noctx"} :
        /\ surface' = s
        /\ IF setupRuns(s)
           THEN \E field \in InitialFields(window.w, window.h), draw \in Draws(variant, 0) :
                  \E st \in { animate(variant,
                                    [particles |-> field, packets |-> << >>,
                                     spawned |-> 0, frame |-> NoFrame],
                                    Sentinel, window.w, window.h, draw) } :
                      /\ width' = window.w
                      /\ height' = window.h
                      /\ mouse' = Sentinel
                      /\ listeners' = listeners \cup registered
                      /\ particles' = st.particles
                      /\ packets' = st.packets
                      /\ spawned' = st.spawned
                      /\ frame' = st.frame
                      /\ rafPending' = st.requests
           ELSE /\ width' = 0
                /\ height' = 0
                /\ mouse' = Sentinel
                /\ particles' = NoParticles
                /\ packets' = << >>
                /\ spawned' = 0
                /\ frame' = NoFrame
                /\ rafPending' = 0
                /\ UNCHANGED listeners
    /\ UNCHANGED << variant, window, client, moves, resizes, frames, pageVars, twinVars,
                    chatVars, uploadVars >>

\* The host runs the pending frame callback of an instance that was
\* unmounted: animate, on that instance's data, which requests the next one.
HostFrameOrphan ==
    /\ frames + moves + resizes < MaxEvents
    /\ \E k \in DOMAIN orphans :
        /\ orphans[k].pending > 0
        /\ \E draw \in Draws(variant, orphans[k].spawned) :
              \E st \in { animate(variant,
                                [particles |-> orphans[k].particles,
                                 packets |-> orphans[k].packets,
                                 spawned |-> orphans[k].spawned,
                                 frame |-> orphans[k].frame],
                                orphans[k].mouse, orphans[k].width, orphans[k].height,
                                draw) } :
                  orphans' = [orphans EXCEPT ![k] =
                                [ particles |-> st.particles, packets |-> st.packets,
                                  spawned |-> st.spawned, frame |-> st.frame,
                                  width |-> orphans[k].width, height |-> orphans[k].height,
                                  mouse |-> orphans[k].mouse,
                                  pending |-> (orphans[k].pending - 1) + st.requests ]]
    /\ frames' = frames + 1
    /\ UNCHANGED << canvasVarsButFrames, pageVars, twinVars, chatVars, uploadVars >>

\* (The pointer and the window are left at rest here.)
NextRemount == Mount \/ HostFrame \/ Unmount \/ Remount \/ HostFrameOrphan

SpecRemount == Init /\ [][NextRemount]_vars

\* ---------------------------------------------- the Analytics chat: page
MaxChat == 5

\* What the chat's steps leave alone.
offChat == << canvasVars, pageVars, twinVars, orphans, uploadVars >>

\* Local storage may hold the session id an earlier upload left there.
InitVisited ==
    /\ InitCanvas /\ InitPage /\ InitTwin
    /\ orphans = << >>
    /\ InitChat
    /\ \E stored \in {NoSession, "s0"} : InitUpload(stored)

\* The mount effect: setSessionId(localStorage.getItem('current_session_id'))
\* and the greeting.
AnalyticsMount ==
    /\ chatMessages = << >>
    /\ sessionId' = storedSessionId
    /\ chatMessages' = << [role |-> "assistant", text |-> GreetingText] >>
    /\ UNCHANGED << input, isLoadingChat, inFlight, called, settled, chatSteps, offChat >>

\* if (!sessionId) return (...): without a session the page renders no chat.
chatRendered == chatMessages # << >> /\ sessionId # NoSession

\* onChange={(e) => setInput(e.target.value)}
ChatType ==
    /\ chatRendered
    /\ chatSteps < MaxChat
    /\ \E q \in ChatTyped \ {input} : input' = q
    /\ chatSteps' = chatSteps + 1
    /\ UNCHANGED << sessionId, isLoadingChat, chatMessages, inFlight, called, settled,
                    offChat >>

\* A guard that lets every call through.
acceptedAlways(text, sid) == TRUE

\* if (!input.trim() || !sessionId) return;
accepted(text, sid) == ChatTrimmed[text] # "" /\ sid # NoSession

\* handleSend, up to the await of AnalyticsService.askQuestion.
handleSend ==
    /\ called' = [n |-> called.n + 1, text |-> input]
    /\ IF accepted(input, sessionId)
       THEN /\ chatMessages' = Append(chatMessages, [role |-> "user", text |-> input])
            /\ input' = ""
            /\ isLoadingChat' = TRUE
            /\ inFlight' = Append(inFlight, [n |-> called.n + 1, question |-> input])
       ELSE UNCHANGED << chatMessages, input, isLoadingChat, inFlight >>

\* onKeyDown={(e) => e.key === 'Enter' && handleSend()}: the input is never
\* disabled.
ChatPressEnter ==
    /\ chatRendered
    /\ chatSteps < MaxChat
    /\ chatSteps' = chatSteps + 1
    /\ handleSend
    /\ UNCHANGED << sessionId, settled, offChat >>

\* <button onClick={handleSend} disabled={isLoadingChat || !input.trim()}>
ChatClickSend ==
    /\ chatRendered
    /\ ~(isLoadingChat \/ ChatTrimmed[input] = "")
    /\ chatSteps < MaxChat
    /\ chatSteps' = chatSteps + 1
    /\ handleSend
    /\ UNCHANGED << sessionId, settled, offChat >>

\* How a request can settle: a response with data.answer or without, or a
\* rejection (network error, status outside 2xx).
Outcomes == { [ok |-> TRUE, answer |-> a] : a \in Answers } \cup
            { [ok |-> FALSE, answer |-> NoAnswer] }

\* botMsg (text: data.answer || "I processed that, ...") or, from the catch
\* block, errorMsg.
botMsg(out) ==
    [ role |-> "assistant",
      text |-> IF out.ok
               THEN (IF out.answer # NoAnswer THEN out.answer ELSE FallbackText)
               ELSE ErrorText ]

\* handleSend from the await on: the try block's rest or the catch block, then
\* finally.  Responses may come in any order.
ChatResponse ==
    /\ \E k \in DOMAIN inFlight, out \in Outcomes :
          /\ chatMessages' = Append(chatMessages, botMsg(out))
          /\ inFlight' = splice(inFlight, k)
          /\ settled' = [n |-> settled.n + 1, request |-> inFlight[k].n,
                         ok |-> out.ok, answer |-> out.answer]
    /\ isLoadingChat' = FALSE
    /\ UNCHANGED << sessionId, input, called, chatSteps, offChat >>

NextChat == AnalyticsMount \/ ChatType \/ ChatPressEnter \/ ChatClickSend \/ ChatResponse

SpecChat == InitVisited /\ [][NextChat]_vars

\* ------------------------------------------- the UploadInvoices page
MaxUploadSteps == 4

\* What the upload page's steps leave alone.
offUpload == << canvasVars, pageVars, twinVars, orphans, chatVars >>

\* The page is shown until a scheduled navigation has left it.
uploadShown == flow.stage # "left"

\* file.type === 'application/pdf' || file.type.startsWith('image/') in
\* invoices mode, file.name.endsWith('.csv') in csv mode
passes(m, file) ==
    IF m = "invoices"
    THEN FileTypes[file] = "application/pdf" \/ FileTypes[file] \in ImageTypes
    ELSE file \in CsvNames

\* newFiles.filter(...), each file marked with the mode in force
validFiles(m, newFiles) ==
    LET kept == SelectSeq(newFiles, LAMBDA f : passes(m, f))
    IN  [ i \in DOMAIN kept |-> [file |-> kept[i], addedIn |-> m] ]

\* handleFiles: in csv mode a valid file replaces the queue; otherwise the
\* valid files are appended (none, when csv mode found no valid file).
handleFiles(m, prev, newFiles) ==
    LET valid == validFiles(m, newFiles)
    IN  IF m = "csv" /\ Len(valid) > 0 THEN << valid[1] >> ELSE prev \o valid

\* handleDrop / handleFileInput
AddFiles ==
    /\ uploadShown
    /\ uploadSteps < MaxUploadSteps
    /\ \E newFiles \in Batches : files' = handleFiles(mode, files, newFiles)
    /\ gesture' = [n |-> gesture.n + 1, kind |-> "add"]
    /\ uploadSteps' = uploadSteps + 1
    /\ UNCHANGED << mode, uploading, uploadProgress, storedSessionId, navigations, flow,
                    handled, offUpload >>

\* removeFile(index): prev.filter((_, i) => i !== index), index counted from 1
removeFile(prev, index) == SubSeq(prev, 1, index - 1) \o SubSeq(prev, index + 1, Len(prev))

\* The X button of a queued file.
RemoveFile ==
    /\ uploadShown
    /\ uploadSteps < MaxUploadSteps
    /\ \E index \in DOMAIN files : files' = removeFile(files, index)
    /\ gesture' = [n |-> gesture.n + 1, kind |-> "remove"]
    /\ uploadSteps' = uploadSteps + 1
    /\ UNCHANGED << mode, uploading, uploadProgress, storedSessionId, navigations, flow,
                    handled, offUpload >>

\* The Clear button of the queue: setFiles([])
ClearQueue ==
    /\ uploadShown
    /\ files # << >>
    /\ uploadSteps < MaxUploadSteps
    /\ files' = << >>
    /\ gesture' = [n |-> gesture.n + 1, kind |-> "clear"]
    /\ uploadSteps' = uploadSteps + 1
    /\ UNCHANGED << mode, uploading, uploadProgress, storedSessionId, navigations, flow,
                    handled, offUpload >>

\* A mode switch that keeps the queue.
switchModeKeeping(prev) == prev

\* switchMode: setFiles([])
switchMode(prev) == << >>

\* Either button of the mode toggle, the one of the mode in force included.
SwitchMode ==
    /\ uploadShown
    /\ uploadSteps < MaxUploadSteps
    /\ \E newMode \in {"invoices", "csv"} : mode' = newMode
    /\ files' = switchMode(files)
    /\ gesture' = [n |-> gesture.n + 1, kind |-> "switch"]
    /\ uploadSteps' = uploadSteps + 1
    /\ UNCHANGED << uploading, uploadProgress, storedSessionId, navigations, flow, handled,
                    offUpload >>

\* handleUpload, up to its first await.  The button is rendered while the
\* queue is not empty and disabled while uploading.
ClickUpload ==
    /\ uploadShown
    /\ files # << >>
    /\ ~uploading
    /\ uploadSteps < MaxUploadSteps
    /\ uploading' = TRUE
    /\ uploadProgress' = 10
    /\ flow' = [ stage |-> IF mode = "invoices" THEN "upload" ELSE "csv",
                 mode |-> mode, files |-> files, sessionId |-> NoSession,
                 succeeded |-> << >>, storedBefore |-> storedSessionId,
                 navigationsBefore |-> navigations ]
    /\ gesture' = [n |-> gesture.n + 1, kind |-> "upload"]
    /\ uploadSteps' = uploadSteps + 1
    /\ UNCHANGED << mode, files, storedSessionId, navigations, handled, offUpload >>

\* A flow that takes the upload for the whole of the invoices flow.
lastRequestEarly(stage) == stage \in {"upload", "csv"}

\* The request after which the flow stores the session id: processInvoices
\* of the invoices flow, uploadCsv of the csv flow.
lastRequest(stage) == stage \in {"process", "csv"}

\* navigate('/invoices') or navigate('/analytics')
target(m) == IF m = "invoices" THEN "/invoices" ELSE "/analytics"

\* handleUpload from an await on: the request it awaits settles.
FlowSettles ==
    /\ flow.stage \in {"upload", "process", "csv"}
    /\ \E ok \in BOOLEAN, sid \in SessionIds :
        IF ~ok
        THEN /\ uploading' = FALSE
             /\ flow' = [flow EXCEPT !.stage = "idle"]
             /\ handled' = [n |-> handled.n + 1, failed |-> TRUE, flow |-> flow]
             /\ UNCHANGED << uploadProgress, storedSessionId, navigations >>
        ELSE \E f1 \in { [flow EXCEPT !.sessionId = IF flow.stage = "process" THEN @ ELSE sid,
                                       !.succeeded = Append(@, flow.stage)] } :
               IF lastRequest(flow.stage)
               THEN /\ uploadProgress' = 100
                    /\ storedSessionId' = f1.sessionId
                    /\ navigations' = Append(navigations, target(flow.mode))
                    /\ flow' = [f1 EXCEPT !.stage = "done"]
                    /\ handled' = [n |-> handled.n + 1, failed |-> FALSE, flow |-> f1]
                    /\ UNCHANGED uploading
               ELSE /\ uploadProgress' = 50
                    /\ flow' = [f1 EXCEPT !.stage = "process"]
                    /\ UNCHANGED << uploading, storedSessionId, navigations, handled >>
    /\ UNCHANGED << mode, files, gesture, uploadSteps, offUpload >>

\* The timer fires: navigate(...) leaves the page.
NavigateFires ==
    /\ uploadShown
    /\ navigations # << >>
    /\ navigations' = Tail(navigations)
    /\ flow' = [flow EXCEPT !.stage = "left"]
    /\ UNCHANGED << mode, files, uploading, uploadProgress, storedSessionId, handled,
                    gesture, uploadSteps, offUpload >>

NextUpload ==
    AddFiles \/ RemoveFile \/ ClearQueue \/ SwitchMode \/ ClickUpload \/ FlowSettles
        \/ NavigateFires

SpecUpload == InitVisited /\ [][NextUpload]_vars

\* ====================================================== the properties
Range(f) == { f[k] : k \in DOMAIN f }
cd2 == connectionDistance(variant) * connectionDistance(variant)

\* C1: once the teardown has run, no frame callback remains pending (the
\* pending request is cancelled, so animate never runs again).
C1_NoFramePendingAfterTeardown == phase = "unmounted" => rafPending = 0

\* C2: after the unmount every further step, a frame signal included, leaves
\* every particle and the whole packet collection as they are.
C2_NothingMovesAfterUnmount ==
    [][phase = "unmounted" => (particles' = particles /\ packets' = packets)]_vars

\* The overshoot of one reflection step: the greatest speed along an axis.
MaxOf(S) == IF S = {} THEN 0 ELSE CHOOSE e \in S : \A o \in S : o <= e
eps == MaxOf({ Abs(particles[i].vx) : i \in DOMAIN particles }
             \cup { Abs(particles[i].vy) : i \in DOMAIN particles })

\* C3: with the surface size fixed, wherever the pointer goes, every
\* particle stays within [-eps, width + eps] x [-eps, height + eps].
C3_Containment ==
    resizes = 0 =>
        \A i \in DOMAIN particles :
            /\ 0 - eps <= particles[i].x /\ particles[i].x <= width + eps
            /\ 0 - eps <= particles[i].y /\ particles[i].y <= height + eps

\* C4: a velocity component is negated once per boundary crossing: never in
\* two successive frames between which the particle stayed outside (the
\* surface size fixed).
C4_OneFlipPerCrossing ==
    resizes = 0 =>
        \A i \in DOMAIN particles :
            /\ ~(frame.flipX[i] /\ frame.flipXBefore[i] /\ outside(frame.prev[i].x, width))
            /\ ~(frame.flipY[i] /\ frame.flipYBefore[i] /\ outside(frame.prev[i].y, height))

\* C5: when the canvas or its 2D context is unavailable at mount time, the
\* component sets nothing up: no particles, no packets, no listener, no
\* frame requested or run, the surface size and the pointer never written.
C5_NoSetupWithoutSurface ==
    (phase # "idle" /\ surface # "ok") =>
        /\ particles = NoParticles
        /\ packets = << >>
        /\ listeners = {}
        /\ rafPending = 0
        /\ ~frame.ran
        /\ width = 0 /\ height = 0
        /\ mouse = Sentinel

\* The host mounted without a context, then moved the pointer and resized.
C5_Witness == phase # "idle" /\ surface = "noctx" /\ moves > 0 /\ resizes > 0

\* C6: after the teardown no listener is registered, and no step (a
\* pointer-move or resize signal included) changes the pointer state or the
\* surface dimensions.
C6_SignalsIgnoredAfterTeardown ==
    /\ [](phase = "unmounted" => listeners = {})
    /\ [][phase = "unmounted" =>
            (mouse' = mouse /\ width' = width /\ height' = height)]_vars

\* A set-up component was unmounted, and then the host moved the pointer and
\* resized the window: neither reached the component.
C6_Witness ==
    /\ phase = "unmounted" /\ surface = "ok"
    /\ moves > 0 /\ mouse # handleMouseMove(client, Rect)
    /\ resizes > 0 /\ [w |-> width, h |-> height] # handleResize(window)

\* C7: the scan of the last spawn attempt, over the particles it read:
\* 'none' iff no other particle is strictly within the threshold; otherwise
\* another particle strictly within it, at the least distance, and the
\* lowest index among those at that distance.
C7_NearestNeighbor ==
    frame.p1 # 0 - 1 =>
        LET parts == frame.prev
            p1 == frame.p1
            c == frame.closest
            others == Indices \ {p1}
            within == { j \in others : hypot2(parts[p1], parts[j]) < cd2 }
        IN  /\ (c = 0 - 1) <=> (within = {})
            /\ c # 0 - 1 =>
                /\ c \in within
                /\ \A j \in others : hypot2(parts[p1], parts[c]) <= hypot2(parts[p1], parts[j])
                /\ \A j \in others :
                      hypot2(parts[p1], parts[j]) = hypot2(parts[p1], parts[c]) => c <= j

\* The scan found a neighbour while another particle was at the same
\* distance from the source.
C7_Witness ==
    /\ frame.p1 # 0 - 1 /\ frame.closest # 0 - 1
    /\ \E j \in Indices \ {frame.p1, frame.closest} :
          hypot2(frame.prev[frame.p1], frame.prev[j])
              = hypot2(frame.prev[frame.p1], frame.prev[frame.closest])

\* C8: across a frame every packet that stays live has strictly greater
\* progress than before, and no packet live after the frame has progress
\* >= 1.
C8_ProgressIncreases ==
    [][frames' # frames =>
          \A q \in Range(packets') :
              /\ q.progress < ArrivalPct
              /\ \A p \in Range(packets) : p.id = q.id => q.progress > p.progress]_vars

\* The last frame removed a packet on arrival and kept another one that has
\* been advanced in at least two frames.
C8_Witness ==
    /\ \E g \in Range(frame.gone) : g.why = "arrived"
    /\ \E q \in Range(packets) : q.progress >= 2 * q.speed

\* C9: no packet that is live, and none that the last frame drew, references
\* two particles farther apart (after that frame's particle update) than
\* the connection distance.
C9_NoPacketOnLostLink ==
    /\ \A q \in Range(packets) : hypot2(particles[q.p1], particles[q.p2]) <= cd2
    /\ \A q \in Range(frame.dots) : hypot2(particles[q.p1], particles[q.p2]) <= cd2

\* The last frame removed, for its lost link, a packet that earlier frames
\* had kept.
C9_Witness ==
    \E g \in Range(frame.gone) : g.why = "linkLost" /\ g.pkt.progress > g.pkt.speed

\* C10: the last frame examined every pair i < j exactly once, computed its
\* distance from particle i as just updated and particle j as the frame
\* found it, and stroked a line iff that distance is strictly below the
\* connection distance, whatever was stroked before; 50 px is below both
\* variants' threshold and 200 px is not.
C10_EdgesFromCurrentDistances ==
    frame.ran =>
        /\ Len(frame.pairs) = (particleCount * (particleCount - 1)) \div 2
        /\ \A i, j \in Indices :
              i < j => Cardinality({ k \in DOMAIN frame.pairs :
                                       frame.pairs[k].i = i /\ frame.pairs[k].j = j }) = 1
        /\ \A k \in DOMAIN frame.pairs :
              frame.pairs[k].dist2
                  = hypot2(particles[frame.pairs[k].i], frame.prev[frame.pairs[k].j])
        /\ frame.links = { pr \in Indices \X Indices :
                             /\ pr[1] < pr[2]
                             /\ hypot2(particles[pr[1]], frame.prev[pr[2]]) < cd2 }
        /\ linked((50 * Unit) * (50 * Unit), cd2)
        /\ ~linked((200 * Unit) * (200 * Unit), cd2)

\* A pair that had a line in the frame before has none in the last frame,
\* and a pair that is exactly at the connection distance has none either.
C10_Witness ==
    /\ frame.linksBefore \ frame.links # {}
    /\ \E k \in DOMAIN frame.pairs : frame.pairs[k].dist2 = cd2

\* C11: a packet created with progress 0 and speed 0.05 whose link stays
\* valid is removed as arrived by its 20th advance, not sooner and not
\* later: a removal on arrival happens at exactly 20 advances, and no such
\* packet is live after 20 advances or arrives with progress below 1.
C11_ArrivesAfterTwentySteps ==
    /\ \A g \in Range(frame.gone) :
          (g.pkt.speed = TopSpeedPct /\ g.why = "arrived") =>
              (g.pkt.steps = 20 /\ g.pkt.progress >= ArrivalPct)
    /\ \A q \in Range(packets) :
          q.speed = TopSpeedPct => (q.steps < 20 /\ q.progress < ArrivalPct)

\* The last frame made the 20th advance of such a packet and removed it on
\* arrival; the frame before had kept it, after 19 advances.
C11_Witness ==
    /\ frames > 0
    /\ \E g \in Range(frame.gone) :
          g.pkt.speed = TopSpeedPct /\ g.why = "arrived" /\ g.pkt.steps = 20

\* A step in which animate runs: a frame callback, or a mount that sets up.
animateRuns == frames' # frames \/ (phase = "idle" /\ setupRuns(surface'))

\* C12: every run of animate is one pass: the spawn step on the particles
\* and packets as the run found them, then the update of all particles (one
\* pointer state, one surface size), then the packet sweep over the spawn
\* step's packets against the updated particles; it leaves exactly one
\* request for the next frame pending; no pointer-move or resize handler
\* acts within a frame.
C12_OnePassPerFrame ==
    [][animateRuns =>
          /\ \E draw \in Draws(variant, spawned) :
                \E sp \in { spawnPackets(variant, frame'.prev, packets, spawned + 1, draw) } :
                    /\ frame'.afterSpawn = sp.pkts
                    /\ frame'.p1 = sp.p1 /\ frame'.closest = sp.closest
          /\ \E up \in { updateParticles(variant, frame'.prev, mouse', width', height') } :
                /\ particles' = up.parts
                /\ \E sw \in { updatePackets(variant, up.parts, frame'.afterSpawn) } :
                      /\ packets' = sw.pkts
                      /\ frame'.dots = sw.dots /\ frame'.gone = sw.gone
          /\ rafPending' = 1
          /\ frames' # frames =>
                /\ frame'.prev = particles /\ rafPending = 1
                /\ mouse' = mouse /\ width' = width /\ height' = height
                /\ moves' = moves /\ resizes' = resizes /\ listeners' = listeners]_vars

\* The pointer moved and the window was resized, and then a frame ran that
\* spawned a packet and advanced it.
C12_Witness ==
    /\ frames > 0 /\ moves > 0 /\ resizes > 0
    /\ frame.closest # 0 - 1
    /\ \E q \in Range(frame.dots) : q.steps = 1

\* C13: the spawn block of a run of animate appends at most one packet and
\* leaves the packets it found as they were; it appends one iff the draw
\* succeeded and some other particle is strictly within the connection
\* distance of the source; the new packet then runs from the source to a
\* nearest such particle, with progress 0 and a speed in [0.02, 0.05).
C13_SpawnAtMostOne ==
    [][animateRuns =>
          LET before == packets
              after == frame'.afterSpawn
              parts == frame'.prev
              p1 == frame'.p1
              within == { j \in Indices \ {p1} : hypot2(parts[p1], parts[j]) < cd2 }
          IN  /\ Len(after) \in { Len(before), Len(before) + 1 }
              /\ SubSeq(after, 1, Len(before)) = before
              /\ (Len(after) = Len(before) + 1) <=> (p1 # 0 - 1 /\ within # {})
              /\ Len(after) = Len(before) + 1 =>
                    LET new == after[Len(after)]
                    IN  /\ new.p1 = p1 /\ new.p2 \in within /\ new.p1 # new.p2
                        /\ \A j \in Indices \ {p1} :
                              hypot2(parts[p1], parts[new.p2]) <= hypot2(parts[p1], parts[j])
                        /\ new.progress = 0
                        /\ new.speed > 0
                        /\ SpeedBasePct <= new.speed /\ new.speed < TopSpeedPct]_vars

\* The last run pushed a packet towards the nearer of two particles within
\* the connection distance of the source.
C13_Witness ==
    /\ frame.closest # 0 - 1
    /\ Len(frame.afterSpawn) = 1
    /\ \E j \in Indices \ {frame.p1, frame.closest} :
          /\ hypot2(frame.prev[frame.p1], frame.prev[j]) < cd2
          /\ hypot2(frame.prev[frame.p1], frame.prev[j])
                > hypot2(frame.prev[frame.p1], frame.prev[frame.closest])

\* The pair of a packet, as the connections loop names it: lower index first.
pairOf(q) == IF q.p1 < q.p2 THEN << q.p1, q.p2 >> ELSE << q.p2, q.p1 >>

\* C14: every packet the last run of animate drew lies on a pair between
\* which that run stroked a line.
C14_PacketsOnDrawnLinks == \A q \in Range(frame.dots) : pairOf(q) \in frame.links

C16_EdgesFromAdvancedField ==
    frame.ran =>
        frame.links = { pr \in Indices \X Indices :
                          /\ pr[1] < pr[2]
                          /\ hypot2(particles[pr[1]], particles[pr[2]]) < cd2 }

\* C17: the packet sweep of a run of animate advances every packet it finds
\* exactly once, removes a packet iff its new progress is >= 1 or its two
\* particles (as that run updated them) are farther apart than the
\* connection distance, and keeps the others in their order.
C17_SweepAdvancesEachOnce ==
    [][animateRuns =>
          LET before == frame'.afterSpawn
              once == [k \in DOMAIN before |->
                         [before[k] EXCEPT !.progress = before[k].progress + before[k].speed,
                                           !.steps = before[k].steps + 1]]
              stays(q) == ~(\/ q.progress >= ArrivalPct
                            \/ hypot2(particles'[q.p1], particles'[q.p2]) > cd2)
              leaves(q) == ~stays(q)
          IN  /\ packets' = SelectSeq(once, stays)
              /\ Len(frame'.gone) = Len(SelectSeq(once, leaves))
              /\ { g.pkt : g \in Range(frame'.gone) } = Range(SelectSeq(once, leaves))]_vars

\* The last frame swept two packets: it removed the one pushed first and
\* kept the one behind it.
C17_Witness ==
    /\ frames > 0 /\ Len(frame.afterSpawn) = 2
    /\ \E g \in Range(frame.gone) : g.pkt.id = frame.afterSpawn[1].id
    /\ \E q \in Range(packets) : q.id = frame.afterSpawn[2].id

\* C18: while the component is mounted (and set up) the particle collection
\* holds exactly particleCount particles at the indices 0 .. particleCount-1
\* and every live packet names two different indices of that range; no
\* step taken while it stays mounted (frame, pointer move, resize) changes
\* which particle is at which index.
C18_ParticlesFixedPacketsInRange ==
    /\ []((phase = "mounted" /\ setupRuns(surface)) =>
            /\ DOMAIN particles = Indices
            /\ Cardinality(DOMAIN particles) = particleCount
            /\ \A q \in Range(packets) :
                  q.p1 \in Indices /\ q.p2 \in Indices /\ q.p1 # q.p2)
    /\ [][(phase = "mounted" /\ phase' = "mounted" /\ setupRuns(surface)) =>
            /\ DOMAIN particles' = DOMAIN particles
            /\ \A i \in DOMAIN particles : particles'[i].size = particles[i].size]_vars

\* Mounted, with a live packet, after a pointer move, a resize and a frame.
C18_Witness ==
    /\ phase = "mounted" /\ frames > 0 /\ moves > 0 /\ resizes > 0
    /\ packets # << >>

\* C19: a packet pushed by a run of animate is advanced by that same run:
\* after the run it is either removed or live with progress equal to its
\* speed; and no live packet ever has progress 0.
C19_SpawnedPacketAdvancedAtOnce ==
    /\ [](\A q \in Range(packets) : q.progress > 0)
    /\ [][(animateRuns /\ spawned' # spawned) =>
            /\ spawned' = spawned + 1
            /\ \/ \E q \in Range(packets') : q.id = spawned' /\ q.progress = q.speed
               \/ /\ \E g \in Range(frame'.gone) : g.pkt.id = spawned'
                  /\ \A q \in Range(packets') : q.id # spawned']_vars

\* A frame callback pushed a packet, advanced it once and kept it.
C19_Witness ==
    /\ frames > 0 /\ frame.closest # 0 - 1
    /\ \E q \in Range(packets) : q.id = spawned /\ q.steps = 1 /\ q.progress = q.speed

\* C20: a pointer-move signal changes nothing of the component but the
\* pointer state, a resize signal nothing but the surface dimensions (no
\* particle, no packet), and a frame callback writes neither the pointer
\* state nor the surface dimensions.
C20_HandlersWriteOwnState ==
    [][/\ moves' # moves =>
            /\ width' = width /\ height' = height
            /\ particles' = particles /\ packets' = packets /\ spawned' = spawned
            /\ listeners' = listeners /\ rafPending' = rafPending
       /\ resizes' # resizes =>
            /\ mouse' = mouse
            /\ particles' = particles /\ packets' = packets /\ spawned' = spawned
            /\ listeners' = listeners /\ rafPending' = rafPending
       /\ frames' # frames =>
            /\ mouse' = mouse /\ width' = width /\ height' = height]_vars

\* With a packet live, both handlers have written their state (the pointer
\* is on the surface, the surface has the new window's size), and a frame
\* has run since the mount.
C20_Witness ==
    /\ surface = "ok" /\ frames > 0 /\ packets # << >>
    /\ moves > 0 /\ mouse = handleMouseMove(client, Rect) /\ mouse # Sentinel
    /\ resizes > 0 /\ width = handleResize(window).w /\ width # InitialWindow.w

\* C21: two runs given the same particles, the same pointer and resize
\* signals and the same spawn draws, but different flicker draws, have the
\* same particles (positions and velocities) and the same packets after
\* every run of animate.
C21_FlickerLeavesPhysicsAlone ==
    frame.ran =>
        /\ twin.particles = particles
        /\ twin.packets = packets
        /\ twin.spawned = spawned

\* After a pointer move and two frames, with a live packet, the two runs
\* have just filled their particles with different alphas.
C21_Witness ==
    /\ frames >= 2 /\ moves > 0 /\ packets # << >>
    /\ alpha # twin.alpha
    /\ \E i \in Indices : frame.prev[i] # particles[i]

\* Whether move is the share part/whole of the component d of the
\* particle-to-pointer vector, to the nearest grid step (whole > 0).
isShare(move, d, part, whole) == 2 * Abs(move * whole - d * part) <= whole

\* C22: in a frame a particle is displaced by the pointer only if its
\* distance d to the pointer after the velocity step is strictly below the
\* interaction radius R, and then by the particle-to-pointer vector times
\* (R - d) / R times 0.03 away from the pointer (repel) or times 0.02
\* towards it (attract); a displacement towards the pointer is shorter
\* than the vector, so the particle never lands on the pointer or beyond.
C22_PointerDisplacement ==
    [][frames' # frames =>
          \A i \in Indices :
              LET x1 == particles[i].x + particles[i].vx
                  y1 == particles[i].y + particles[i].vy
                  dx == mouse.x - x1
                  dy == mouse.y - y1
                  d == sqrt(dx * dx + dy * dy)
                  R == mouseDistance(variant)
                  mx == particles'[i].x - x1
                  my == particles'[i].y - y1
              IN  IF dx * dx + dy * dy < R * R
                  THEN IF variant = "repel"
                       THEN /\ isShare(0 - mx, dx, (R - d) * 3, R * 100)
                            /\ isShare(0 - my, dy, (R - d) * 3, R * 100)
                            /\ mx * dx <= 0 /\ my * dy <= 0
                       ELSE /\ isShare(mx, dx, (R - d) * 2, R * 100)
                            /\ isShare(my, dy, (R - d) * 2, R * 100)
                            /\ mx * dx >= 0 /\ my * dy >= 0
                            /\ Abs(mx) <= Abs(dx) /\ Abs(my) <= Abs(dy)
                            /\ (mx = dx /\ my = dy) => (dx = 0 /\ dy = 0)
                  ELSE mx = 0 /\ my = 0]_vars

\* The last frame pulled a particle of the attracting field towards the
\* pointer and left another one, out of reach, to its velocity alone.
C22_Witness ==
    /\ frames > 0 /\ variant = "attract"
    /\ \E i \in Indices : particles[i].x # frame.prev[i].x + frame.prev[i].vx
    /\ \E i \in Indices :
          /\ particles[i].x = frame.prev[i].x + frame.prev[i].vx
          /\ particles[i].y = frame.prev[i].y + frame.prev[i].vy

RECURSIVE pendingOf(_)
pendingOf(os) == IF os = << >> THEN 0 ELSE Head(os).pending + pendingOf(Tail(os))

\* The chains of frame callbacks that are alive: the present instance's and
\* those of the instances before it.
loopsAlive == rafPending + pendingOf(orphans)

\* C23: across any sequence of mounts and unmounts, an unmount followed by a
\* remount included, at most one animation loop is alive at any time.
C23_AtMostOneLoop == loopsAlive <= 1


\* A coordinate beyond the surface extent by more than the per-tick speed.
beyond(c, v, extent) == c > extent + Abs(v) \/ c < 0 - Abs(v)

\* What C24 says of one coordinate over one frame: c, v before the frame, c1,
\* v1 after it, flipped whether the frame negated the velocity, and (had)
\* c0, v0 before the frame before.
stuck(c0, v0, had, c, v, c1, v1, flipped, extent) ==
    /\ beyond(c, v, extent) =>
          /\ flipped
          /\ v1 = 0 - v
          /\ c1 = c + v
          /\ (c1 < 0 \/ c1 > extent)
    /\ (had /\ beyond(c0, v0, extent) /\ c = c0 + v0 /\ v = 0 - v0) =>
          /\ flipped
          /\ c1 = c0
          /\ v1 = v0
          /\ (c1 < 0 \/ c1 > extent)

\* C24: with the pointer never moved, a particle whose coordinate lies beyond
\* the surface extent by more than its per-tick speed has its velocity
\* negated in every frame, is after two frames where it was (so it alternates
\* between two positions), and stays outside the surface.
C24_StuckBeyondEdge ==
    [][ (frames' # frames /\ mouse = Sentinel) =>
          \A i \in Indices :
            /\ stuck(IF frame.ran THEN frame.prev[i].x ELSE 0,
                     IF frame.ran THEN frame.prev[i].vx ELSE 0, frame.ran,
                     particles[i].x, particles[i].vx,
                     particles'[i].x, particles'[i].vx, frame'.flipX[i], width)
            /\ stuck(IF frame.ran THEN frame.prev[i].y ELSE 0,
                     IF frame.ran THEN frame.prev[i].vy ELSE 0, frame.ran,
                     particles[i].y, particles[i].vy,
                     particles'[i].y, particles'[i].vy, frame'.flipY[i], height) ]_vars

\* Two frames after a resize that shrank the surface, a particle left beyond
\* the new right edge has flipped in both and is beyond the edge still.
C24_Witness ==
    /\ frames = 2
    /\ resizes = 1
    /\ mouse = Sentinel
    /\ width < InitialWindow.w
    /\ \E i \in Indices :
        /\ frame.flipX[i]
        /\ frame.flipXBefore[i]
        /\ particles[i].vx # 0
        /\ particles[i].x > width
        /\ frame.prev[i].x > width
        /\ frame.prev[i].x # particles[i].x


\* C25: in the Analytics chat, whenever at least one ask request is in flight
\* isLoadingChat is true (it is false only when none is in flight), for every
\* interleaving of sends and responses.
C25_LoadingWhileInFlight == inFlight # << >> => isLoadingChat


\* The messages of one role in a history.
ofRole(msgs, role) == { i \in DOMAIN msgs : msgs[i].role = role }

\* No message of the history is removed or rewritten by the step.
historyKept ==
    /\ Len(chatMessages) <= Len(chatMessages')
    /\ SubSeq(chatMessages', 1, Len(chatMessages)) = chatMessages

\* A call of handleSend with a non-blank input and a session appends the
\* user's message and sends a request; any other call changes nothing.
sendAppends ==
    called'.n # called.n =>
        IF ChatTrimmed[called'.text] # "" /\ sessionId # NoSession
        THEN /\ chatMessages' = Append(chatMessages, [role |-> "user", text |-> called'.text])
             /\ Len(inFlight') = Len(inFlight) + 1
        ELSE /\ chatMessages' = chatMessages
             /\ inFlight' = inFlight

\* A request that settles leaves the requests in flight and appends one
\* assistant message of the text given; no other step appends anything.
settleAppends(text) ==
    /\ settled'.n # settled.n =>
          /\ Len(inFlight') = Len(inFlight) - 1
          /\ chatMessages' = Append(chatMessages, [role |-> "assistant", text |-> text])
    /\ (settled'.n = settled.n /\ called'.n = called.n /\ chatMessages # << >>) =>
          chatMessages' = chatMessages

\* Every user message has its assistant message or its request in flight; the
\* one assistant message more is the greeting.
oneReplyEach ==
    chatMessages # << >> =>
        /\ Cardinality(ofRole(chatMessages, "user")) = settled.n + Len(inFlight)
        /\ Cardinality(ofRole(chatMessages, "assistant")) = settled.n + 1

\* C26 as stated: every accepted question appends the user's message and,
\* once its request settles, exactly one assistant message, the answer on
\* success or the fixed error text on failure; no message is removed or
\* rewritten.
C26_AnswerOrErrorText ==
    /\ []oneReplyEach
    /\ [][ /\ historyKept
           /\ sendAppends
           /\ settleAppends(IF settled'.ok THEN settled'.answer ELSE ErrorText) ]_vars

\* C26, amended: on success the assistant message is the answer when the
\* response carries one and the fixed fallback text when it carries none.
C26_AnswerFallbackOrErrorText ==
    /\ []oneReplyEach
    /\ [][ /\ historyKept
           /\ sendAppends
           /\ settleAppends(IF ~settled'.ok THEN ErrorText
                            ELSE IF settled'.answer # NoAnswer THEN settled'.answer
                            ELSE FallbackText) ]_vars

\* Two questions in flight, the first answered second, by a response without
\* an answer.
C26_Witness ==
    /\ settled.n = 2
    /\ settled.request = 1
    /\ settled.ok
    /\ settled.answer = NoAnswer
    /\ inFlight = << >>
    /\ Len(chatMessages) = 5
    /\ chatMessages[5] = [role |-> "assistant", text |-> FallbackText]
    /\ chatMessages[2].role = "user"
    /\ chatMessages[3].role = "user"


\* The requests of a flow, in the order it makes them.
requestsOf(m) == IF m = "invoices" THEN << "upload", "process" >> ELSE << "csv" >>

\* C27: handleUpload writes current_session_id to local storage and schedules
\* the navigation only after every request of the chosen flow has succeeded;
\* when a request fails, the stored session id is what it was, no navigation
\* is scheduled, and uploading is false again.
C27_StoreOnlyAfterSuccess ==
    [][ /\ (storedSessionId' # storedSessionId \/ Len(navigations') > Len(navigations)) =>
              /\ handled'.n = handled.n + 1
              /\ ~handled'.failed
        /\ (handled'.n # handled.n /\ ~handled'.failed) =>
              /\ handled'.flow.succeeded = requestsOf(handled'.flow.mode)
              /\ handled'.flow.sessionId \in SessionIds
              /\ storedSessionId' = handled'.flow.sessionId
              /\ navigations' = Append(navigations,
                                       IF handled'.flow.mode = "invoices"
                                       THEN "/invoices" ELSE "/analytics")
        /\ (handled'.n # handled.n /\ handled'.failed) =>
              /\ storedSessionId' = storedSessionId
              /\ storedSessionId' = handled'.flow.storedBefore
              /\ navigations' = navigations
              /\ navigations' = handled'.flow.navigationsBefore
              /\ uploading
              /\ ~uploading' ]_vars

\* An invoices flow that succeeded at the second attempt: the first left the
\* session id of the earlier visit in place.
C27_Witness ==
    /\ handled.n = 2
    /\ ~handled.failed
    /\ handled.flow.mode = "invoices"
    /\ handled.flow.storedBefore = "s0"
    /\ storedSessionId = handled.flow.sessionId
    /\ storedSessionId \in SessionIds
    /\ navigations = << "/invoices" >>
    /\ uploading

\* C28: in UploadInvoices the queue holds at most one file whenever the mode
\* is 'csv', every queued file passed the filter of the mode in force when it
\* was added, and a mode switch always empties the queue.
C28_QueueFitsMode ==
    /\ [](/\ mode = "csv" => Len(files) <= 1
          /\ \A i \in DOMAIN files :
                IF files[i].addedIn = "invoices"
                THEN FileTypes[files[i].file] \in {"application/pdf"} \cup ImageTypes
                ELSE files[i].file \in CsvNames)
    /\ [][ (gesture'.n # gesture.n /\ gesture'.kind = "switch") => files' = << >> ]_vars

\* In csv mode, after a switch and two additions, one file is queued.
C28_Witness ==
    /\ mode = "csv"
    /\ Len(files) = 1
    /\ files[1].addedIn = "csv"
    /\ gesture.kind = "add"
    /\ gesture.n = 3
    /\ uploadSteps = 3


\* C29: once a packet is created no step changes its source index, its
\* destination index or its speed; its progress is written only by the
\* advance step of a run of animate (the spawn block, the particle pass, the
\* pointer and the resize handlers leave every packet as it is), which adds
\* the packet's speed to it once.
C29_PacketFieldsFixed ==
    [][ /\ \A q \in Range(packets) :
              \A r \in Range(packets') :
                 r.id = q.id =>
                    /\ r.p1 = q.p1
                    /\ r.p2 = q.p2
                    /\ r.speed = q.speed
                    /\ r.progress = IF animateRuns THEN q.progress + q.speed ELSE q.progress
        /\ animateRuns =>
              /\ SubSeq(frame'.afterSpawn, 1, Len(packets)) = packets
              /\ \A g \in Range(frame'.gone) :
                    \E b \in Range(frame'.afterSpawn) :
                       /\ b.id = g.pkt.id
                       /\ g.pkt.p1 = b.p1 /\ g.pkt.p2 = b.p2 /\ g.pkt.speed = b.speed
                       /\ g.pkt.progress = b.progress + b.speed
        /\ ~animateRuns => packets' = packets ]_vars

\* A packet that three runs of animate have advanced, the pointer having
\* moved in between.
C29_Witness ==
    /\ moves > 0
    /\ \E q \in Range(packets) :
          /\ q.steps = 3
          /\ q.progress = 3 * q.speed
          /\ q.p1 # q.p2

====
